---- MODULE Spec2Model ----
(***************************************************************************)
(* Model of uberscrape's extraction pipeline (core/scraper.py):            *)
(* WebScraper.extract_batch running one _extract_single coroutine per URL  *)
(* behind an asyncio.Semaphore, and the JSON recovery chain at the end of  *)
(* WebScraper._extract_with_llm.                                           *)
(***************************************************************************)
EXTENDS Integers, Sequences, FiniteSets, TLC

\* ---------------------------------------------------------------- bounds
MaxUrls == 2
MaxConcurrent == 2
ExtraLen == 3

\* ------------------------------------------------------- program constants
ExcerptLen == 200
MaxMarkdown == 50000

VARIABLES
    max_concurrent,  \* WebScraper.max_concurrent
    sem_value,       \* free slots of WebScraper.semaphore
    batch_pc,        \* "idle" | "running" | "returned": position of extract_batch
    urls,            \* the urls argument of extract_batch
    parallel,        \* the parallel argument of extract_batch
    pc,              \* per coroutine: "pending" | "fetching" | "llm" | "done"
    markdown,        \* per coroutine: the local markdown handed to the model
    extracted,       \* per coroutine: what _extract_with_llm returned
    raised_at,       \* per coroutine: the stage that raised, and its message
    results,         \* per coroutine: how _extract_single ended
    completed,       \* coroutine indexes in order of completion
    acquires,        \* per coroutine: number of semaphore acquisitions
    releases,        \* per coroutine: number of semaphore releases
    fetch_calls,     \* per coroutine: number of _fetch calls
    fetch_status,    \* per coroutine: "none" | "started" | "ok" | "failed"
    llm_calls,       \* per coroutine: number of messages.create calls
    returned,        \* the list extract_batch returned
    use_browser,     \* WebScraper.use_browser
    inputs,          \* per coroutine: what its fetch and its model call met
    browser,         \* per coroutine: "none" | "closed" | "unclosed" browser
    p_pc,            \* "idle" | "parsed": position of a lone parser call
    p_reply,         \* the reply given to the lone parser call
    p_result,        \* its result
    call,            \* "none", or the function called on its own
    call_in,         \* the arguments of that call
    call_out         \* what the call returned, raised and wrote

vars == <<max_concurrent, sem_value, batch_pc, urls, parallel, pc, markdown,
          extracted, raised_at, results, completed, acquires, releases,
          fetch_calls, fetch_status, llm_calls, returned, use_browser,
          inputs, browser, p_pc, p_reply, p_result, call, call_in,
          call_out>>

batch_vars == <<max_concurrent, sem_value, batch_pc, urls, parallel, pc,
                markdown, extracted, raised_at, results, completed, acquires,
                releases, fetch_calls, fetch_status, llm_calls, returned,
                use_browser, inputs, browser>>

parser_vars == <<p_pc, p_reply, p_result>>

call_vars == <<call, call_in, call_out>>

\* ------------------------------------------------------------ Python values
PyTrue == "True"

Min(a, b) == IF a < b THEN a ELSE b

\* s[:n]
Take(s, n) == SubSeq(s, 1, Min(Len(s), n))

\* str(e) of an exception: a fixed head followed by quoted text
Msg(head, excerpt) == [head |-> head, excerpt |-> excerpt]

NoMsg == Msg("", <<>>)

\* a text of the given length; characters are small numbers
Text(len) == [k \in 1..len |-> k % 7]

\* a JSON value as json.loads returns it: dict, list, str, ...
NoFields == [none |-> "none"]

JObject(f) == [kind |-> "object", fields |-> f]

JArray == [kind |-> "array", fields |-> NoFields]

JString == [kind |-> "string", fields |-> NoFields]

JNull == [kind |-> "null", fields |-> NoFields]

ObjPlain == JObject([title |-> "Widget"])

ObjOther == JObject([title |-> "Gadget"])

ObjMeta == JObject([title |-> "Widget", url |-> "http://model", source |-> "model"])

ObjMarked == JObject([title |-> "Widget", parse_error |-> PyTrue])

JsonValues == {ObjPlain, ObjOther, ObjMeta, ObjMarked, JArray, JString, JNull}

\* what a callee hands back: a value, or an exception with its message
NoValue == [none |-> "none"]

Return(v) == [raised |-> FALSE, value |-> v, exc |-> NoMsg]

Raise(m) == [raised |-> TRUE, value |-> NoValue, exc |-> m]

\* ------------------------------------------------------------- model reply
\* A reply text together with what the three library calls make of it:
\* json.loads(text), json.loads(repair_json(text)), and the fenced block
\* found by re.search with what json.loads makes of its contents.
Loaded(v) == [ok |-> TRUE, value |-> v]

NotLoaded == [ok |-> FALSE, value |-> JNull]

Fenced(l) == [present |-> TRUE, ok |-> l.ok, value |-> l.value]

NoFence == [present |-> FALSE, ok |-> FALSE, value |-> JNull]

TextLens == {20, ExcerptLen, ExcerptLen + ExtraLen}

Replies ==
    [text : {Text(n) : n \in TextLens},
     direct : {NotLoaded} \cup {Loaded(v) : v \in JsonValues \ {ObjOther}},
     repaired : {NotLoaded, Loaded(ObjOther), Loaded(JString)},
     fence : {NoFence, Fenced(NotLoaded), Fenced(Loaded(ObjPlain)),
              Fenced(Loaded(JArray))}]

\* ------------------------------------------------- response recovery parser
\* scraper.py 212-232. stages lists the stages that were invoked.
ParseRepairFirst(reply) ==
    IF reply.repaired.ok
    THEN [ret |-> Return(reply.repaired.value), stages |-> <<"repair">>]
    ELSE IF reply.direct.ok
    THEN [ret |-> Return(reply.direct.value), stages |-> <<"repair", "direct">>]
    ELSE [ret |-> Raise(Msg("Could not parse LLM response as JSON: ",
                            Take(reply.text, ExcerptLen))),
          stages |-> <<"repair", "direct">>]

ParseResponse(reply) ==
    IF reply.direct.ok
    THEN [ret |-> Return(reply.direct.value), stages |-> <<"direct">>]
    ELSE IF reply.repaired.ok
    THEN [ret |-> Return(reply.repaired.value),
          stages |-> <<"direct", "repair">>]
    ELSE IF reply.fence.present
    THEN [ret |-> IF reply.fence.ok
                  THEN Return(reply.fence.value)
                  ELSE Raise(Msg("Expecting value: line 1 column 1 (char 0)",
                                 <<>>)),
          stages |-> <<"direct", "repair", "fence">>]
    ELSE [ret |-> Raise(Msg("Could not parse LLM response as JSON: ",
                            Take(reply.text, ExcerptLen))),
          stages |-> <<"direct", "repair", "fence">>]

\* ------------------------------------------------------------------ fetcher
\* What the network does with one GET: a response, or no response in time.
Pages == {[id |-> "short", md_len |-> 10],
          [id |-> "long", md_len |-> MaxMarkdown + ExtraLen]}

NoPage == [id |-> "none", md_len |-> 0]

FetchOutcomes ==
    [kind : {"response"}, status : {200, 404}, page : Pages]
        \cup {[kind |-> "timeout", status |-> 0, page |-> NoPage]}

FetchSucceeded(o) == o.kind = "response" /\ o.status >= 200 /\ o.status < 300

\* scraper.py 149-159: raise_for_status() raises on a non-2xx status
FetchIgnoringErrors(o) == Return(o.page)

FetchWithHttpx(o) ==
    IF o.kind = "timeout"
    THEN Raise(Msg("timed out", <<>>))
    ELSE IF o.status >= 200 /\ o.status < 300
    THEN Return(o.page)
    ELSE Raise(Msg("Client error '404 Not Found'", <<>>))

\* scraper.py 161-180: what happens to the browser session of one call.
\* The outcome names the first step that fails, if any; goto returns the
\* page whatever its status. browser.close() is the statement of line 178.
BrowserOutcomes ==
    [kind : {"response"}, status : {200, 404}, page : Pages]
        \cup {[kind |-> k, status |-> 0, page |-> NoPage] :
                k \in {"launch_failed", "goto_timeout", "settle_failed",
                       "capture_failed"}}

FetchWithBrowser(o) ==
    IF o.kind = "launch_failed"
    THEN [ret |-> Raise(Msg("Executable doesn't exist", <<>>)),
          browser |-> "none"]
    ELSE IF o.kind = "goto_timeout"
    THEN [ret |-> Raise(Msg("Timeout 30000ms exceeded.", <<>>)),
          browser |-> "unclosed"]
    ELSE IF o.kind = "settle_failed"
    THEN [ret |-> Raise(Msg("Target closed", <<>>)), browser |-> "unclosed"]
    ELSE IF o.kind = "capture_failed"
    THEN [ret |-> Raise(Msg("Unable to retrieve content", <<>>)),
          browser |-> "unclosed"]
    ELSE [ret |-> Return(o.page), browser |-> "closed"]

\* scraper.py 134-147
FetchOutcomesOf(ub) == IF ub THEN BrowserOutcomes ELSE FetchOutcomes

Fetch(ub, o) == IF ub THEN FetchWithBrowser(o).ret ELSE FetchWithHttpx(o)

BrowserAfterFetch(ub, o) == IF ub THEN FetchWithBrowser(o).browser ELSE "none"

FetchSucceededIn(ub, o) == IF ub THEN o.kind = "response" ELSE FetchSucceeded(o)

\* --------------------------------------------------------- content reducer
\* A text is described by how many characters of the page's markdown it
\* keeps and whether the truncation marker follows them.
NoText == [len |-> 0, marker |-> FALSE]

\* scraper.py 112: h2t.handle(html)
HtmlToMarkdown(page) == [len |-> page.md_len, marker |-> FALSE]

\* scraper.py 115-116
Truncate(md) ==
    IF md.len > MaxMarkdown
    THEN [len |-> MaxMarkdown, marker |-> TRUE]
    ELSE md

\* --------------------------------------------------------------- model call
NoReply == [text |-> <<>>, direct |-> NotLoaded, repaired |-> NotLoaded,
            fence |-> NoFence]

\* the replies the pipeline is run with: one for every way the parser ends
LongText == Text(ExcerptLen + ExtraLen)

Reply(d, r, f) == [text |-> LongText, direct |-> d, repaired |-> r, fence |-> f]

PipelineReplies ==
    {Reply(Loaded(v), Loaded(ObjOther), NoFence) :
        v \in {ObjPlain, ObjMeta, ObjMarked, JArray}}
        \cup {Reply(NotLoaded, Loaded(ObjOther), NoFence),
              Reply(NotLoaded, NotLoaded, Fenced(Loaded(ObjPlain))),
              Reply(NotLoaded, NotLoaded, Fenced(NotLoaded)),
              Reply(NotLoaded, NotLoaded, NoFence)}

ModelOutcomes ==
    {[kind |-> "api_error", reply |-> NoReply],
     [kind |-> "no_text", reply |-> NoReply]}
        \cup {[kind |-> "reply", reply |-> r] : r \in PipelineReplies}

\* scraper.py 197-232: the request, response.content[0].text, the parser
ExtractWithLlm(m) ==
    IF m.kind = "api_error"
    THEN Raise(Msg("Connection error.", <<>>))
    ELSE IF m.kind = "no_text"
    THEN Raise(Msg("list index out of range", <<>>))
    ELSE ParseResponse(m.reply).ret

\* ------------------------------------------------------ single-URL pipeline
Failure(url, msg) == [url |-> url, error |-> msg, parse_error |-> PyTrue]

ItemAssignmentError(kind) ==
    IF kind = "array"
    THEN Msg("list indices must be integers or slices, not str", <<>>)
    ELSE IF kind = "string"
    THEN Msg("'str' object does not support item assignment", <<>>)
    ELSE Msg("'NoneType' object does not support item assignment", <<>>)

\* scraper.py 122-125: extracted["url"] = url; extracted["source"] = ...
AddMetadataKeepingKeys(data, url) ==
    IF data.kind = "object"
    THEN Return([k \in DOMAIN data.fields \cup {"url", "source"} |->
                    IF k \in DOMAIN data.fields THEN data.fields[k]
                    ELSE IF k = "url" THEN url ELSE "uberscrape"])
    ELSE Raise(ItemAssignmentError(data.kind))

AddMetadata(data, url) ==
    IF data.kind = "object"
    THEN Return([k \in DOMAIN data.fields \cup {"url", "source"} |->
                    IF k = "url" THEN url
                    ELSE IF k = "source" THEN "uberscrape"
                    ELSE data.fields[k]])
    ELSE Raise(ItemAssignmentError(data.kind))

\* scraper.py 127-132: except Exception as e: return {...}
ExceptHandlerReraising(url, exc) == Raise(exc)

ExceptHandler(url, exc) == Return(Failure(url, exc))

\* what one coroutine met: the outcome of its fetch and of its model call
NoFetchOutcome == [kind |-> "none", status |-> 0, page |-> NoPage]

NoModelOutcome == [kind |-> "none", reply |-> NoReply]

NoInputs == [fetch |-> NoFetchOutcome, model |-> NoModelOutcome]

\* the page reaches the outcome only through the model's reply, which is
\* kept on its own
WithoutPage(o) == [o EXCEPT !.page = NoPage]

\* scraper.py 172: in browser mode the status of the response is never read
Met(ub, o) ==
    IF ub /\ o.kind = "response"
    THEN [WithoutPage(o) EXCEPT !.status = 200]
    ELSE WithoutPage(o)

\* scraper.py 106-132 from call to return, given what the fetch and the
\* model call meet
ExtractSingle(ub, url, in) ==
    LET f == Fetch(ub, in.fetch) IN
    IF f.raised
    THEN ExceptHandler(url, f.exc)
    ELSE LET r == ExtractWithLlm(in.model) IN
         IF r.raised
         THEN ExceptHandler(url, r.exc)
         ELSE LET a == AddMetadata(r.value, url) IN
              IF a.raised THEN ExceptHandler(url, a.exc) ELSE a

\* --------------------------------------------------------- admission gate
\* asyncio.Semaphore.acquire proceeds only while a slot is free
CanAcquireAlways(value) == TRUE

CanAcquire(value) == value > 0

\* leaving "async with self.semaphore" (scraper.py 106)
AsyncWithExitOnSuccess(value, failed) == IF failed THEN value ELSE value + 1

AsyncWithExit(value, failed) == value + 1

\* ------------------------------------------------------------ extract_batch
\* asyncio.gather hands the results back in argument order
GatherAsCompleted(res, order) == [i \in DOMAIN res |-> res[order[i]]]

Gather(res, order) == res

\* scraper.py 75-79 and 84-88
ConvertExceptions(us, res) ==
    [i \in DOMAIN res |->
        IF res[i].raised THEN Failure(us[i], res[i].exc) ELSE res[i].value]

\* the url lists extract_batch is called with: distinct neighbours, and the
\* same URL repeated
Alternating ==
    [i \in 1..MaxUrls |-> IF i % 2 = 1 THEN "http://a" ELSE "http://b"]

Repeated == [i \in 1..MaxUrls |-> "http://a"]

UrlLists ==
    {SubSeq(us, 1, n) : us \in {Alternating, Repeated}, n \in 0..MaxUrls}

Tasks == DOMAIN pc

NoStage == [stage |-> "none", msg |-> NoMsg]

\* the coroutine of urls[i] has been started by its caller
StartableAlways(i) == TRUE

Startable(i) == parallel \/ \A j \in 1..(i - 1) : pc[j] = "done"

InFlight == {i \in Tasks : pc[i] \in {"fetching", "llm"}}

Init ==
    /\ max_concurrent \in 0..MaxConcurrent
    /\ use_browser \in BOOLEAN
    /\ sem_value = max_concurrent
    /\ batch_pc = "idle"
    /\ urls = <<>>
    /\ parallel = TRUE
    /\ pc = <<>>
    /\ markdown = <<>>
    /\ extracted = <<>>
    /\ raised_at = <<>>
    /\ results = <<>>
    /\ completed = <<>>
    /\ acquires = <<>>
    /\ releases = <<>>
    /\ fetch_calls = <<>>
    /\ fetch_status = <<>>
    /\ llm_calls = <<>>
    /\ returned = <<>>
    /\ inputs = <<>>
    /\ browser = <<>>
    /\ p_pc = "idle"
    /\ p_reply = NoReply
    /\ p_result = [ret |-> Return(JNull), stages |-> <<>>]
    /\ call = "none"
    /\ call_in = NoValue
    /\ call_out = NoValue

\* scraper.py 53-71: the call, up to the creation of the coroutines
ExtractBatch ==
    /\ batch_pc = "idle"
    /\ \E us \in UrlLists, par \in BOOLEAN :
        /\ urls' = us
        /\ parallel' = par
        /\ pc' = [i \in DOMAIN us |-> "pending"]
        /\ markdown' = [i \in DOMAIN us |-> NoText]
        /\ extracted' = [i \in DOMAIN us |-> Return(NoValue)]
        /\ raised_at' = [i \in DOMAIN us |-> NoStage]
        /\ results' = [i \in DOMAIN us |-> Return(NoValue)]
        /\ acquires' = [i \in DOMAIN us |-> 0]
        /\ releases' = [i \in DOMAIN us |-> 0]
        /\ fetch_calls' = [i \in DOMAIN us |-> 0]
        /\ fetch_status' = [i \in DOMAIN us |-> "none"]
        /\ llm_calls' = [i \in DOMAIN us |-> 0]
        /\ inputs' = [i \in DOMAIN us |-> NoInputs]
        /\ browser' = [i \in DOMAIN us |-> "none"]
    /\ batch_pc' = "running"
    /\ UNCHANGED <<max_concurrent, use_browser, sem_value, completed,
                   returned>>
    /\ UNCHANGED parser_vars
    /\ UNCHANGED call_vars

\* scraper.py 106-109: take a slot, then issue the fetch
Enter(i) ==
    /\ batch_pc = "running"
    /\ pc[i] = "pending"
    /\ Startable(i)
    /\ CanAcquire(sem_value)
    /\ sem_value' = sem_value - 1
    /\ acquires' = [acquires EXCEPT ![i] = @ + 1]
    /\ fetch_calls' = [fetch_calls EXCEPT ![i] = @ + 1]
    /\ fetch_status' = [fetch_status EXCEPT ![i] = "started"]
    /\ pc' = [pc EXCEPT ![i] = "fetching"]
    /\ UNCHANGED <<max_concurrent, batch_pc, urls, parallel, markdown,
                   extracted, raised_at, results, completed, releases,
                   llm_calls, returned, use_browser, inputs, browser>>
    /\ UNCHANGED parser_vars
    /\ UNCHANGED call_vars

\* scraper.py 125-132 and the end of the async with block: the coroutine
\* ends with ret, and its slot goes back
FinishCancellingSiblings(i, ret, failed) ==
    LET victims == IF failed THEN InFlight \ {i} ELSE {}
        ended == victims \cup {i}
    IN
    /\ results' = [j \in Tasks |->
                     IF j = i THEN ret
                     ELSE IF j \in victims
                     THEN Return(Failure(urls[j], Msg("cancelled", <<>>)))
                     ELSE results[j]]
    /\ pc' = [j \in Tasks |-> IF j \in ended THEN "done" ELSE pc[j]]
    /\ markdown' = [j \in Tasks |->
                      IF j \in ended THEN NoText ELSE markdown[j]]
    /\ sem_value' = sem_value + Cardinality(ended)
    /\ releases' = [j \in Tasks |->
                      IF j \in ended THEN releases[j] + 1 ELSE releases[j]]
    /\ completed' = Append(completed, i)

Finish(i, ret, failed) ==
    /\ results' = [results EXCEPT ![i] = ret]
    /\ pc' = [pc EXCEPT ![i] = "done"]
    /\ markdown' = [markdown EXCEPT ![i] = NoText]
    /\ sem_value' = AsyncWithExit(sem_value, failed)
    /\ releases' = [releases EXCEPT ![i] = @ + (sem_value' - sem_value)]
    /\ completed' = Append(completed, i)

\* scraper.py 109-119: the fetch answers; on success the text is reduced
\* and the model request goes out
FetchDone(i) ==
    /\ batch_pc = "running"
    /\ pc[i] = "fetching"
    /\ \E o \in FetchOutcomesOf(use_browser) :
        LET f == Fetch(use_browser, o) IN
        /\ fetch_status' = [fetch_status EXCEPT
                              ![i] = IF FetchSucceededIn(use_browser, o)
                                     THEN "ok" ELSE "failed"]
        /\ inputs' = [inputs EXCEPT ![i].fetch = Met(use_browser, o)]
        /\ browser' = [browser EXCEPT ![i] = BrowserAfterFetch(use_browser, o)]
        /\ IF f.raised
           THEN /\ Finish(i, ExceptHandler(urls[i], f.exc), TRUE)
                /\ raised_at' = [raised_at EXCEPT
                                   ![i] = [stage |-> "fetch", msg |-> f.exc]]
                /\ UNCHANGED llm_calls
           ELSE /\ markdown' = [markdown EXCEPT
                                  ![i] = Truncate(HtmlToMarkdown(f.value))]
                /\ llm_calls' = [llm_calls EXCEPT ![i] = @ + 1]
                /\ pc' = [pc EXCEPT ![i] = "llm"]
                /\ UNCHANGED <<raised_at, results, sem_value, releases,
                               completed>>
    /\ UNCHANGED <<max_concurrent, batch_pc, urls, parallel, extracted,
                   acquires, fetch_calls, returned, use_browser>>
    /\ UNCHANGED parser_vars
    /\ UNCHANGED call_vars

\* scraper.py 119-132: the model answers; parse, add url and source
LlmDone(i) ==
    /\ batch_pc = "running"
    /\ pc[i] = "llm"
    /\ \E m \in ModelOutcomes :
        LET r == ExtractWithLlm(m)
            a == IF r.raised THEN r ELSE AddMetadata(r.value, urls[i])
            stage == IF ~r.raised THEN "metadata"
                     ELSE IF m.kind = "reply" THEN "parse" ELSE "model"
        IN
        /\ extracted' = [extracted EXCEPT ![i] = r]
        /\ inputs' = [inputs EXCEPT ![i].model = m]
        /\ IF a.raised
           THEN /\ Finish(i, ExceptHandler(urls[i], a.exc), TRUE)
                /\ raised_at' = [raised_at EXCEPT
                                   ![i] = [stage |-> stage, msg |-> a.exc]]
           ELSE /\ Finish(i, a, FALSE)
                /\ UNCHANGED raised_at
    /\ UNCHANGED <<max_concurrent, batch_pc, urls, parallel, acquires,
                   fetch_calls, fetch_status, llm_calls, returned,
                   use_browser, browser>>
    /\ UNCHANGED parser_vars
    /\ UNCHANGED call_vars

\* scraper.py 72-79 and 89: every coroutine has ended, the list goes back
BatchReturn ==
    /\ batch_pc = "running"
    /\ \A i \in Tasks : pc[i] = "done"
    /\ returned' = IF parallel
                   THEN ConvertExceptions(urls, Gather(results, completed))
                   ELSE ConvertExceptions(urls, results)
    /\ batch_pc' = "returned"
    /\ UNCHANGED <<max_concurrent, sem_value, urls, parallel, pc, markdown,
                   extracted, raised_at, results, completed, acquires,
                   releases, fetch_calls, fetch_status, llm_calls,
                   use_browser, inputs, browser>>
    /\ UNCHANGED parser_vars
    /\ UNCHANGED call_vars

Next ==
    \/ ExtractBatch
    \/ \E i \in Tasks : Enter(i)
    \/ \E i \in Tasks : FetchDone(i)
    \/ \E i \in Tasks : LlmDone(i)
    \/ BatchReturn

Spec == Init /\ [][Next]_vars

\* The event loop runs every coroutine that can run; asyncio.Semaphore wakes
\* its waiters in order, so a waiter whose slot keeps coming back gets one;
\* every fetch and every model call answers or fails.
Fairness ==
    /\ \A i \in 1..MaxUrls :
        /\ SF_vars(i \in Tasks /\ Enter(i))
        /\ WF_vars(i \in Tasks /\ FetchDone(i))
        /\ WF_vars(i \in Tasks /\ LlmDone(i))
    /\ WF_vars(BatchReturn)

FairSpec == Spec /\ Fairness

\* scraper.py 212-232 called on its own with one reply
ParseCall ==
    /\ p_pc = "idle"
    /\ \E r \in Replies :
        /\ p_reply' = r
        /\ p_result' = ParseResponse(r)
    /\ p_pc' = "parsed"
    /\ UNCHANGED batch_vars
    /\ UNCHANGED call_vars

ParserNext == ParseCall

ParserSpec == Init /\ [][ParserNext]_vars

\* ------------------------------------------------- content reducer, on text
\* scraper.py 116: "\n\n[... content truncated ...]" as code points
TruncationMarker ==
    <<10, 10, 91, 46, 46, 46, 32, 99, 111, 110, 116, 101, 110, 116, 32, 116,
      114, 117, 110, 99, 97, 116, 101, 100, 32, 46, 46, 46, 93>>

\* scraper.py 115-116 on the characters of the markdown
ReduceTextAtCap(md) ==
    IF Len(md) >= MaxMarkdown
    THEN SubSeq(md, 1, MaxMarkdown) \o TruncationMarker
    ELSE md

ReduceText(md) ==
    IF Len(md) > MaxMarkdown
    THEN SubSeq(md, 1, MaxMarkdown) \o TruncationMarker
    ELSE md

OtherText(len) == [k \in 1..len |-> (k + 3) % 5]

MarkdownLens ==
    {0, ExtraLen, MaxMarkdown - ExtraLen, MaxMarkdown - 1, MaxMarkdown,
     MaxMarkdown + 1, MaxMarkdown + ExtraLen}

Markdowns == {Text(n) : n \in MarkdownLens} \cup {OtherText(n) : n \in MarkdownLens}

ReduceCall ==
    /\ call = "none"
    /\ \E md \in Markdowns :
        /\ call_in' = md
        /\ call_out' = Return(ReduceText(md))
    /\ call' = "reduce"
    /\ UNCHANGED batch_vars
    /\ UNCHANGED parser_vars

\* ------------------------------------------------------------- load_schema
\* A value of the schema file's object: a string, or something else.
PyStr(t) == [kind |-> "str", text |-> t]

PyNum == [kind |-> "num", text |-> "1"]

PyList == [kind |-> "list", text |-> "[1, 2]"]

PyDict == [kind |-> "dict", text |-> "{\"k\": 1}"]

PyNone == [kind |-> "none", text |-> "None"]

PyBool == [kind |-> "bool", text |-> "True"]

\* schema.py 34
ValidTypes == {"string", "number", "boolean", "array", "object"}

SchemaValues ==
    {PyStr(t) : t \in ValidTypes \cup {"money"}} \cup {PyNum, PyList}

FieldNames == {"price", "title"}

\* the fields of an object in file order: no name twice
FieldLists(values) ==
    LET names == {ns \in UNION {[1..n -> FieldNames] :
                                    n \in 0..Cardinality(FieldNames)} :
                    \A i, j \in DOMAIN ns : i # j => ns[i] # ns[j]}
    IN UNION {{[k \in DOMAIN ns |-> [name |-> ns[k], value |-> vs[k]]] :
                 vs \in [DOMAIN ns -> values]} : ns \in names}

SchemaFile(exists, parses, top, fields) ==
    [exists |-> exists, parses |-> parses, top |-> top, fields |-> fields]

SchemaFiles ==
    {SchemaFile(FALSE, FALSE, "none", <<>>),
     SchemaFile(TRUE, FALSE, "none", <<>>),
     SchemaFile(TRUE, TRUE, "array", <<>>),
     SchemaFile(TRUE, TRUE, "string", <<>>)}
        \cup {SchemaFile(TRUE, TRUE, "object", fs) :
                fs \in FieldLists(SchemaValues)}

\* schema.py 35-40: the loop over schema.items()
RECURSIVE ValidateFields(_, _)
ValidateFields(fields, k) ==
    IF k > Len(fields)
    THEN Return(fields)
    ELSE IF fields[k].value.kind \in {"list", "dict"}
    THEN Raise(Msg("unhashable type", <<>>))
    ELSE IF ~(fields[k].value.kind = "str"
              /\ fields[k].value.text \in ValidTypes)
    THEN Raise(Msg("Invalid type for field", <<fields[k].name>>))
    ELSE ValidateFields(fields, k + 1)

\* schema.py 7-42
LoadSchemaUnvalidated(file) ==
    IF ~file.exists
    THEN Raise(Msg("Schema file not found", <<>>))
    ELSE IF ~file.parses
    THEN Raise(Msg("Expecting value: line 1 column 1 (char 0)", <<>>))
    ELSE IF file.top # "object"
    THEN Raise(Msg("Schema must be a JSON object (dictionary)", <<>>))
    ELSE Return(file.fields)

LoadSchema(file) ==
    IF ~file.exists
    THEN Raise(Msg("Schema file not found", <<>>))
    ELSE IF ~file.parses
    THEN Raise(Msg("Expecting value: line 1 column 1 (char 0)", <<>>))
    ELSE IF file.top # "object"
    THEN Raise(Msg("Schema must be a JSON object (dictionary)", <<>>))
    ELSE ValidateFields(file.fields, 1)

LoadSchemaCall ==
    /\ call = "none"
    /\ \E file \in SchemaFiles :
        /\ call_in' = file
        /\ call_out' = LoadSchema(file)
    /\ call' = "load_schema"
    /\ UNCHANGED batch_vars
    /\ UNCHANGED parser_vars

\* ---------------------------------------------------------- prompt builder
\* scraper.py 250-252: f"<{type_}>"
Placeholder(type_) == <<"<", type_.text, ">">>

\* scraper.py 234-272: the example object as json.dumps writes it, key by
\* key, and the page text after the fixed rules
BuildExtractionPromptFromNames(schema, md) ==
    [intro |-> "Extract structured data from this webpage markdown.",
     example |-> [k \in DOMAIN schema |->
                    [key |-> schema[k].name,
                     value |-> <<"<", schema[k].name, ">">>]],
     rules |-> "Extraction rules:",
     content |-> md]

BuildExtractionPrompt(schema, md) ==
    [intro |-> "Extract structured data from this webpage markdown.",
     example |-> [k \in DOMAIN schema |->
                    [key |-> schema[k].name,
                     value |-> Placeholder(schema[k].value)]],
     rules |-> "Extraction rules:",
     content |-> md]

PromptSchemas == FieldLists({PyStr(t) : t \in ValidTypes})

PromptTexts == {Truncate(HtmlToMarkdown(page)) : page \in Pages}

BuildPromptCall ==
    /\ call = "none"
    /\ \E schema \in PromptSchemas, md \in PromptTexts :
        /\ call_in' = [schema |-> schema, markdown |-> md]
        /\ call_out' = BuildExtractionPrompt(schema, md)
    /\ call' = "build_prompt"
    /\ UNCHANGED batch_vars
    /\ UNCHANGED parser_vars

\* ------------------------------------------------------------------ export
\* Outcomes as export.py sees them: mappings from keys to Python values.
SuccessAB ==
    [a |-> PyStr("x"), b |-> PyList,
     source |-> PyStr("https://a.example"), url |-> PyStr("https://a.example")]

SuccessBC ==
    [b |-> PyDict, c |-> PyNone,
     source |-> PyStr("https://b.example"), url |-> PyStr("https://b.example")]

SuccessA ==
    [a |-> PyNum,
     source |-> PyStr("https://a.example"), url |-> PyStr("https://a.example")]

FailureB ==
    [error |-> PyStr("timed out"), parse_error |-> PyBool,
     url |-> PyStr("https://b.example")]

ExportOutcomes == {SuccessAB, SuccessBC, SuccessA, FailureB}

ExportLists == UNION {[1..n -> ExportOutcomes] : n \in 0..MaxUrls}

\* the keys above in the order sorted() gives strings
KeyOrder == <<"a", "b", "c", "error", "parse_error", "source", "url">>

Rank(key) == CHOOSE n \in DOMAIN KeyOrder : KeyOrder[n] = key

\* export.py 54: sorted(all_keys)
RECURSIVE Sorted(_)
Sorted(keys) ==
    IF keys = {}
    THEN <<>>
    ELSE LET first == CHOOSE k \in keys : \A o \in keys : Rank(k) <= Rank(o)
         IN <<first>> \o Sorted(keys \ {first})

File(format, has_header, header, rows) ==
    [format |-> format, has_header |-> has_header, header |-> header,
     rows |-> rows]

NoFile == File("none", FALSE, <<>>, <<>>)

\* export.py 65-69 and what csv.DictWriter writes for the value
Cell(result, key) ==
    LET value == IF key \in DOMAIN result THEN result[key] ELSE PyNone
    IN IF value.kind \in {"list", "dict"}
       THEN [kind |-> "json", of |-> value]
       ELSE IF value.kind = "none"
       THEN [kind |-> "empty", of |-> value]
       ELSE [kind |-> "plain", of |-> value]

\* export.py 36-71
ExportCsvKeepingInternalKeys(rs) ==
    IF rs = <<>>
    THEN File("csv", FALSE, <<>>, <<>>)
    ELSE LET all_keys == UNION {DOMAIN rs[i] : i \in DOMAIN rs}
             fieldnames == Sorted(all_keys)
         IN File("csv", TRUE, fieldnames,
                 [i \in DOMAIN rs |->
                    [k \in DOMAIN fieldnames |-> Cell(rs[i], fieldnames[k])]])

ExportCsv(rs) ==
    IF rs = <<>>
    THEN File("csv", FALSE, <<>>, <<>>)
    ELSE LET all_keys == UNION {DOMAIN rs[i] : i \in DOMAIN rs}
             fieldnames == Sorted(all_keys \ {"source", "parse_error"})
         IN File("csv", TRUE, fieldnames,
                 [i \in DOMAIN rs |->
                    [k \in DOMAIN fieldnames |-> Cell(rs[i], fieldnames[k])]])

\* export.py 31-34
ExportJson(rs) == File("json", FALSE, <<>>, rs)

Suffixes == {".json", ".JSON", ".csv", ".Csv", ".txt", ""}

\* str.lower on the suffixes above
Lower(suffix) ==
    CASE suffix = ".JSON" -> ".json"
      [] suffix = ".Csv" -> ".csv"
      [] OTHER -> suffix

\* export.py 8-29
ExportResultsCaseSensitive(rs, output_suffix) ==
    LET suffix == output_suffix
    IN IF suffix = ".json"
       THEN [ret |-> Return(NoValue), file |-> ExportJson(rs)]
       ELSE IF suffix = ".csv"
       THEN [ret |-> Return(NoValue), file |-> ExportCsv(rs)]
       ELSE [ret |-> Raise(Msg("Unsupported output format", <<suffix>>)),
             file |-> NoFile]

ExportResults(rs, output_suffix) ==
    LET suffix == Lower(output_suffix)
    IN IF suffix = ".json"
       THEN [ret |-> Return(NoValue), file |-> ExportJson(rs)]
       ELSE IF suffix = ".csv"
       THEN [ret |-> Return(NoValue), file |-> ExportCsv(rs)]
       ELSE [ret |-> Raise(Msg("Unsupported output format", <<suffix>>)),
             file |-> NoFile]

ExportCall ==
    /\ call = "none"
    /\ \E rs \in ExportLists, suffix \in Suffixes :
        /\ call_in' = [results |-> rs, suffix |-> suffix]
        /\ call_out' = ExportResults(rs, suffix)
    /\ call' = "export"
    /\ UNCHANGED batch_vars
    /\ UNCHANGED parser_vars

\* ----------------------------------------------------------------- sitemap
MaxLocs == 3

\* the <url> elements of a document: every third has no usable <loc>
Locs(n) == [k \in 1..n |-> [present |-> k % 3 # 2, text |-> <<"page", k>>]]

SitemapDoc(wellformed, root, ns_locs, plain_locs) ==
    [wellformed |-> wellformed, root |-> root, ns_locs |-> ns_locs,
     plain_locs |-> plain_locs]

SitemapDocs ==
    {SitemapDoc(FALSE, "none", <<>>, <<>>),
     SitemapDoc(TRUE, "sitemapindex", Locs(MaxLocs), <<>>)}
        \cup {SitemapDoc(TRUE, "urlset", Locs(n), <<>>) : n \in 0..MaxLocs}
        \cup {SitemapDoc(TRUE, "urlset", <<>>, Locs(n)) : n \in 1..MaxLocs}

NoLimit == [given |-> FALSE, n |-> 0]

Limit(n) == [given |-> TRUE, n |-> n]

SitemapLimits == {NoLimit} \cup {Limit(n) : n \in 0..MaxLocs}

\* sitemap.py 56-61 and 65-70: one loop over <url> elements
RECURSIVE CollectLocs(_, _, _, _)
CollectLocs(locs, k, found, limit) ==
    IF k > Len(locs)
    THEN found
    ELSE IF locs[k].present
    THEN LET appended == Append(found, locs[k].text)
         IN IF (limit.given /\ limit.n # 0) /\ Len(appended) >= limit.n
            THEN appended
            ELSE CollectLocs(locs, k + 1, appended, limit)
    ELSE CollectLocs(locs, k + 1, found, limit)

\* sitemap.py 41-75
ParseSitemapXml(doc, limit) ==
    IF ~doc.wellformed
    THEN <<>>
    ELSE IF doc.root = "sitemapindex"
    THEN <<>>
    ELSE LET found == CollectLocs(doc.ns_locs, 1, <<>>, limit)
         IN IF found # <<>>
            THEN found
            ELSE CollectLocs(doc.plain_locs, 1, <<>>, limit)

NoDoc == SitemapDoc(FALSE, "none", <<>>, <<>>)

SitemapResponses ==
    {[kind |-> "error", status |-> 0, doc |-> NoDoc],
     [kind |-> "response", status |-> 404, doc |-> NoDoc]}
        \cup {[kind |-> "response", status |-> 200, doc |-> d] : d \in SitemapDocs}

\* sitemap.py 22-26
SitemapCandidates == <<"/sitemap.xml", "/sitemap_index.xml", "/sitemap-index.xml">>

\* sitemap.py 8-39: the loop over the candidates
\* found is the value of urls, probed the requests sent so far
RECURSIVE TryCandidatesStoppingAtFirstOk(_, _, _, _, _)
TryCandidatesStoppingAtFirstOk(responses, k, found, probed, limit) ==
    IF k > Len(SitemapCandidates)
    THEN [urls |-> found, probed |-> probed]
    ELSE IF responses[k].kind = "response" /\ responses[k].status = 200
    THEN [urls |-> ParseSitemapXml(responses[k].doc, limit),
          probed |-> Append(probed, SitemapCandidates[k])]
    ELSE TryCandidatesStoppingAtFirstOk(
            responses, k + 1, found,
            Append(probed, SitemapCandidates[k]), limit)

RECURSIVE TryCandidates(_, _, _, _, _)
TryCandidates(responses, k, found, probed, limit) ==
    IF k > Len(SitemapCandidates)
    THEN [urls |-> found, probed |-> probed]
    ELSE IF responses[k].kind = "response" /\ responses[k].status = 200
    THEN LET parsed == ParseSitemapXml(responses[k].doc, limit)
         IN IF parsed # <<>>
            THEN [urls |-> parsed,
                  probed |-> Append(probed, SitemapCandidates[k])]
            ELSE TryCandidates(responses, k + 1, parsed,
                               Append(probed, SitemapCandidates[k]), limit)
    ELSE TryCandidates(responses, k + 1, found,
                       Append(probed, SitemapCandidates[k]), limit)

\* sitemap.py 8-39: the URLs returned and the candidates requested
FetchSitemapUrls(responses, limit) ==
    TryCandidates(responses, 1, <<>>, <<>>, limit)

SitemapCall ==
    /\ call = "none"
    /\ \E responses \in [DOMAIN SitemapCandidates -> SitemapResponses],
          limit \in SitemapLimits :
        /\ call_in' = [responses |-> responses, limit |-> limit]
        /\ call_out' = FetchSitemapUrls(responses, limit)
    /\ call' = "sitemap"
    /\ UNCHANGED batch_vars
    /\ UNCHANGED parser_vars

\* --------------------------------------------------------- extract command
\* scraper.py 22-29: the parameters __init__ accepts, and the one it needs
InitParams ==
    {"anthropic_key", "brave_key", "use_browser", "timeout", "max_concurrent"}

RequiredInitParams == {"anthropic_key"}

\* cli.py 101-106: the keywords the command passes
ScraperKeywords == {"gemini_key", "use_browser", "timeout", "max_concurrent"}

\* binding the keywords of a call to __init__
ConstructScraper(keywords) ==
    IF keywords \subseteq InitParams /\ RequiredInitParams \subseteq keywords
    THEN Return(NoValue)
    ELSE Raise(Msg("__init__() got an unexpected keyword argument", <<>>))

\* cli.py 41: the default of --parallel
DefaultParallel == 5

\* cli.py 131: failed[:5]
PreviewLen == 5

\* what a run of the command did after the scraper was constructed
NoRun ==
    [max_concurrent |-> 0, urls |-> <<>>, successful |-> 0, failed |-> 0,
     shown |-> <<>>, file |-> NoFile, closed |-> FALSE]

Stop(steps, printed) ==
    [steps |-> steps, printed |-> printed, raised |-> FALSE, exc |-> NoMsg,
     run |-> NoRun]

Crash(steps, exc) ==
    [steps |-> steps, printed |-> "", raised |-> TRUE, exc |-> exc,
     run |-> NoRun]

Ran(steps, printed, run) ==
    [steps |-> steps, printed |-> printed, raised |-> FALSE, exc |-> NoMsg,
     run |-> run]

\* str.strip on the lines of the --urls files below
Strip(line) ==
    CASE line = "http://a\n" -> "http://a"
      [] line = "  http://b \n" -> "http://b"
      [] line = "\n" -> ""
      [] line = "   \n" -> ""
      [] OTHER -> line

ShortFile == <<"http://a\n", "\n", "  http://b \n">>

\* more URLs than the preview shows, with blank lines between
LongFile ==
    [k \in 1..(PreviewLen + 3) |->
        IF k % 4 = 0 THEN "   \n"
        ELSE IF k % 2 = 1 THEN "http://a\n" ELSE "  http://b \n"]

\* cli.py 88-92
UrlsList(a) ==
    IF a.url
    THEN <<"http://a">>
    ELSE SelectSeq([k \in DOMAIN a.lines |-> Strip(a.lines[k])],
                   LAMBDA line : line # "")

\* what extract_batch hands back to the command: one outcome per URL
BatchOutcomes(us, fails) ==
    [i \in DOMAIN us |->
        IF fails = "all" \/ (fails = "odd" /\ i % 2 = 1)
        THEN [error |-> PyStr("timed out"), parse_error |-> PyBool,
              url |-> PyStr(us[i])]
        ELSE [a |-> PyStr("x"), source |-> PyStr("uberscrape"),
              url |-> PyStr(us[i])]]

\* cli.py 121-122: r.get('parse_error')
MarkedFailed(r) == "parse_error" \in DOMAIN r /\ r.parse_error = PyBool

\* cli.py 80-149: from the API key to scraper.close()
RunExtraction(a) ==
    IF ~a.api_key
    THEN Stop(<<"load_schema">>,
              "Error: GEMINI_API_KEY not found in environment")
    ELSE LET urls_list == UrlsList(a)
             made == ConstructScraper(ScraperKeywords)
         IN IF made.raised
            THEN Crash(<<"load_schema", "WebScraper">>, made.exc)
            ELSE LET rs == BatchOutcomes(urls_list, a.fails)
                     successful == SelectSeq(rs, LAMBDA r : ~MarkedFailed(r))
                     failed == SelectSeq(rs, MarkedFailed)
                     shown == [k \in 1..Min(Len(failed), PreviewLen) |->
                                 [url |-> failed[k].url,
                                  error |-> failed[k].error]]
                     exported == ExportResults(rs, a.output)
                     run(closed) ==
                        [max_concurrent |-> a.parallel, urls |-> urls_list,
                         successful |-> Len(successful),
                         failed |-> Len(failed), shown |-> shown,
                         file |-> exported.file, closed |-> closed]
                 IN IF exported.ret.raised
                    THEN Ran(<<"load_schema", "WebScraper", "extract_batch",
                               "export_results">>,
                             "Error saving results", run(FALSE))
                    ELSE Ran(<<"load_schema", "WebScraper", "extract_batch",
                               "export_results", "close">>,
                             "Results saved", run(TRUE))

\* cli.py 61-149: _extract
ExtractCommandIgnoringSchemaError(a) ==
    IF ~a.url /\ ~a.urls_file
    THEN Stop(<<>>, "Error: Provide either --url or --urls")
    ELSE IF a.url /\ a.urls_file
    THEN Stop(<<>>, "Error: Provide only one of --url or --urls")
    ELSE RunExtraction(a)

ExtractCommand(a) ==
    IF ~a.url /\ ~a.urls_file
    THEN Stop(<<>>, "Error: Provide either --url or --urls")
    ELSE IF a.url /\ a.urls_file
    THEN Stop(<<>>, "Error: Provide only one of --url or --urls")
    ELSE IF LoadSchema(a.schema_file).raised
    THEN Stop(<<"load_schema">>, "Error loading schema")
    ELSE RunExtraction(a)

CommandSchemaFiles == {file \in SchemaFiles : Len(file.fields) <= 1}

CommandArgs ==
    [url : BOOLEAN, urls_file : BOOLEAN, lines : {ShortFile, LongFile},
     schema_file : CommandSchemaFiles, api_key : BOOLEAN,
     output : {".json", ".txt"}, parallel : {1, DefaultParallel},
     fails : {"none", "odd", "all"}]

ExtractCommandCall ==
    /\ call = "none"
    /\ \E a \in CommandArgs :
        /\ call_in' = a
        /\ call_out' = ExtractCommand(a)
    /\ call' = "extract"
    /\ UNCHANGED batch_vars
    /\ UNCHANGED parser_vars

CallNext ==
    \/ ReduceCall
    \/ LoadSchemaCall
    \/ BuildPromptCall
    \/ ExportCall
    \/ SitemapCall
    \/ ExtractCommandCall

CallSpec == Init /\ [][CallNext]_vars

\* ------------------------------------------------------------------ claims
IsPrefixOf(e, t, n) ==
    /\ Len(e) = Min(Len(t), n)
    /\ \A k \in 1..Len(e) : e[k] = t[k]

HasMarker(o) == "parse_error" \in DOMAIN o /\ o.parse_error = PyTrue

IsSuccess(o, u) ==
    /\ {"url", "source"} \subseteq DOMAIN o
    /\ o.url = u
    /\ o.source = "uberscrape"
    /\ ~HasMarker(o)

IsFailure(o, u) ==
    /\ {"url", "error", "parse_error"} \subseteq DOMAIN o
    /\ o.url = u
    /\ HasMarker(o)

Failed(i) == raised_at[i].stage # "none"

Succeeded(i) == pc[i] = "done" /\ ~Failed(i)

\* C1: the list extract_batch returns has one outcome per input URL, and
\* the i-th outcome carries the i-th input URL, whatever order the
\* coroutines completed in.
C1_OrderPreserved ==
    batch_pc = "returned" =>
        /\ Len(returned) = Len(urls)
        /\ \A i \in 1..Len(urls) : returned[i].url = urls[i]

C1_Witness ==
    /\ batch_pc = "returned"
    /\ parallel
    /\ Len(urls) = 2
    /\ urls[1] # urls[2]
    /\ completed = <<2, 1>>
    /\ returned[1].url = urls[1]

\* C2: at most max_concurrent coroutines are between the start of their
\* fetch and their end, and a coroutine whose fetch has started holds a
\* slot of the semaphore.
C2_GateBound ==
    /\ Cardinality(InFlight) <= max_concurrent
    /\ \A i \in Tasks :
        fetch_calls[i] > 0 /\ pc[i] # "done" =>
            acquires[i] - releases[i] = 1

C2_Witness ==
    /\ parallel
    /\ max_concurrent = 1
    /\ Cardinality(InFlight) = 1
    /\ \E i \in Tasks : pc[i] = "pending" /\ fetch_calls[i] = 0

\* C3: every returned outcome is exactly one of Success (url, provenance
\* tag, no failure marker) and Failure (url, error message, failure marker),
\* whatever the model replied.
C3_ExactlyOneOutcome ==
    batch_pc = "returned" =>
        /\ Len(returned) = Len(urls)
        /\ \A i \in 1..Len(urls) :
            IsSuccess(returned[i], urls[i]) # IsFailure(returned[i], urls[i])

\* C4: an error raised by the fetch, the model call or the parser is caught
\* in its own coroutine, which ends by returning the Failure dict with its
\* URL and the error's message; extract_batch returns that dict, and the
\* step in which one coroutine fails changes no other coroutine.
C4_FailureIsLocal ==
    /\ [](\A i \in Tasks :
            Failed(i) =>
                /\ pc[i] = "done"
                /\ results[i] = Return(Failure(urls[i], raised_at[i].msg))
                /\ batch_pc = "returned" =>
                    returned[i] = Failure(urls[i], raised_at[i].msg))
    /\ [](batch_pc = "returned" => \A i \in Tasks : pc[i] = "done")
    /\ [][batch_pc = "running" =>
            \A i \in Tasks :
                ~Failed(i) /\ Failed(i)' =>
                    \A j \in Tasks \ {i} :
                        /\ pc'[j] = pc[j]
                        /\ results'[j] = results[j]
                        /\ raised_at'[j] = raised_at[j]]_vars

C4_Witness ==
    /\ batch_pc = "returned"
    /\ Len(urls) = 2
    /\ completed = <<1, 2>>
    /\ raised_at[1].stage \in {"fetch", "model", "parse"}
    /\ Succeeded(2)
    /\ IsFailure(returned[1], urls[1])
    /\ IsSuccess(returned[2], urls[2])

\* C5: a coroutine acquires the semaphore once and releases it once when it
\* ends, by success or by failure; whenever no coroutine is in flight all
\* max_concurrent slots are free.
C5_SlotReleasedOnce ==
    /\ \A i \in Tasks :
        /\ acquires[i] <= 1
        /\ releases[i] <= acquires[i]
        /\ pc[i] = "done" => acquires[i] = 1 /\ releases[i] = 1
    /\ InFlight = {} => sem_value = max_concurrent

C5_Witness ==
    /\ batch_pc = "returned"
    /\ max_concurrent >= 1
    /\ \E i \in Tasks : Failed(i)
    /\ \E i \in Tasks : Succeeded(i)
    /\ sem_value = max_concurrent

\* C6: the parser invokes direct parse, repaired parse and fenced-block
\* parse in that order, a stage only after every earlier one failed, and
\* returns the value of the first stage that succeeds.
C6_StagesInOrder ==
    p_pc = "parsed" =>
        LET s == p_result.stages
            r == p_reply
        IN
        /\ s \in {<<"direct">>, <<"direct", "repair">>,
                  <<"direct", "repair", "fence">>}
        /\ Len(s) >= 2 => ~r.direct.ok
        /\ Len(s) >= 3 => ~r.repaired.ok
        /\ r.direct.ok =>
            s = <<"direct">> /\ p_result.ret = Return(r.direct.value)
        /\ ~r.direct.ok /\ r.repaired.ok =>
            /\ s = <<"direct", "repair">>
            /\ p_result.ret = Return(r.repaired.value)
        /\ ~r.direct.ok /\ ~r.repaired.ok /\ r.fence.present /\ r.fence.ok =>
            p_result.ret = Return(r.fence.value)

C6_Witness ==
    /\ p_pc = "parsed"
    /\ p_reply.direct.ok
    /\ p_reply.repaired.ok
    /\ p_reply.fence.present /\ p_reply.fence.ok
    /\ p_reply.repaired.value # p_reply.direct.value
    /\ p_reply.fence.value # p_reply.direct.value
    /\ p_result.stages = <<"direct">>
    /\ p_result.ret = Return(p_reply.direct.value)

\* C7: when direct, repaired and fenced-block parsing all fail (a fenced
\* block with invalid contents included), the parser's error message holds
\* the first 200 characters of the reply.
C7_ErrorCarriesExcerpt ==
    p_pc = "parsed" /\ ~p_reply.direct.ok /\ ~p_reply.repaired.ok
        /\ ~(p_reply.fence.present /\ p_reply.fence.ok) =>
        /\ p_result.ret.raised
        /\ IsPrefixOf(p_result.ret.exc.excerpt, p_reply.text, 200)

\* C8: a value the parser returns is a mapping (JSON object).
C8_ParserReturnsMapping ==
    p_pc = "parsed" /\ ~p_result.ret.raised =>
        p_result.ret.value.kind = "object"

\* C9: a coroutine that ends without an error returns the parsed mapping
\* with url set to its URL and source set to "uberscrape", over any url or
\* source key of the reply, and every other key as parsed.
C9_SuccessIsParsedPlusMetadata ==
    \A i \in Tasks :
        Succeeded(i) =>
            LET parsed == extracted[i].value.fields
                o == results[i].value
            IN
            /\ ~results[i].raised
            /\ ~extracted[i].raised
            /\ DOMAIN o = DOMAIN parsed \cup {"url", "source"}
            /\ o.url = urls[i]
            /\ o.source = "uberscrape"
            /\ \A k \in DOMAIN parsed \ {"url", "source"} : o[k] = parsed[k]
            /\ batch_pc = "returned" => returned[i] = o

C9_Witness ==
    /\ batch_pc = "returned"
    /\ \E i \in Tasks :
        /\ Succeeded(i)
        /\ extracted[i].value = ObjMeta
        /\ returned[i].url = urls[i]
        /\ returned[i].source = "uberscrape"
        /\ returned[i].title = "Widget"

\* C10: a coroutine fetches at most once and calls the model at most once,
\* calls the model only after its fetch succeeded, and is over once a
\* stage has failed.
C10_SingleAttempt ==
    \A i \in Tasks :
        /\ fetch_calls[i] <= 1
        /\ llm_calls[i] <= 1
        /\ llm_calls[i] > 0 => fetch_status[i] = "ok"
        /\ fetch_status[i] = "failed" => llm_calls[i] = 0 /\ pc[i] = "done"
        /\ Failed(i) => pc[i] = "done"

C10_Witness ==
    /\ \E i \in Tasks :
        /\ pc[i] = "done"
        /\ fetch_status[i] = "failed"
        /\ fetch_calls[i] = 1
        /\ llm_calls[i] = 0
    /\ \E i \in Tasks :
        /\ pc[i] = "done"
        /\ raised_at[i].stage = "parse"
        /\ fetch_calls[i] = 1
        /\ llm_calls[i] = 1

\* C11: the outcome of a coroutine is the outcome its own fetch and model
\* results give, whatever its siblings met and whenever they ended, and a
\* step ends or moves one coroutine only: none is cancelled with a sibling.
C11_OutcomeIsOwn ==
    /\ [](\A i \in Tasks :
            pc[i] = "done" =>
                /\ inputs[i].fetch.kind # "none"
                /\ results[i] = ExtractSingle(use_browser, urls[i], inputs[i])
                /\ batch_pc = "returned" =>
                    returned[i] =
                        ExtractSingle(use_browser, urls[i], inputs[i]).value)
    /\ [][batch_pc = "running" =>
            Cardinality({j \in Tasks : pc'[j] # pc[j]}) <= 1]_vars

C11_Witness ==
    /\ batch_pc = "returned"
    /\ parallel
    /\ max_concurrent = 2
    /\ urls = <<"http://a", "http://a">>
    /\ completed = <<1, 2>>
    /\ raised_at[1].stage = "fetch"
    /\ Succeeded(2)
    /\ inputs[2].model.reply.direct = Loaded(ObjPlain)
    /\ returned[2] = [title |-> "Widget", url |-> "http://a",
                      source |-> "uberscrape"]

\* C12: in browser mode a fetch that launched a browser has closed it when
\* the call is over, whether it returned the page or raised.
C12_BrowserClosed ==
    \A i \in Tasks :
        use_browser /\ fetch_status[i] \in {"ok", "failed"} =>
            browser[i] \in {"none", "closed"}

\* C14: sequential mode returns the list parallel mode returns for the same
\* per-URL results (in both modes the i-th outcome is what the i-th URL's own
\* results give), runs one coroutine at a time in input order, and turns a
\* failure into a Failure outcome without skipping the URLs after it.
C14_SequentialSameAsParallel ==
    /\ ~parallel /\ batch_pc # "idle" =>
        /\ Cardinality(InFlight) <= 1
        /\ \A i \in Tasks :
            pc[i] # "pending" => \A j \in 1..(i - 1) : pc[j] = "done"
    /\ batch_pc = "returned" =>
        /\ Len(returned) = Len(urls)
        /\ \A i \in Tasks :
            /\ fetch_calls[i] = 1
            /\ returned[i] =
                ExtractSingle(use_browser, urls[i], inputs[i]).value
            /\ Failed(i) => IsFailure(returned[i], urls[i])

C14_Witness ==
    /\ batch_pc = "returned"
    /\ ~parallel
    /\ max_concurrent = 2
    /\ Len(urls) = 2
    /\ completed = <<1, 2>>
    /\ raised_at[1].stage = "parse"
    /\ Succeeded(2)
    /\ IsFailure(returned[1], urls[1])
    /\ IsSuccess(returned[2], urls[2])


\* C13: the content reducer returns text of at most 50,000 characters
\* unchanged; longer text comes back as its first 50,000 characters followed
\* by the truncation marker, and the reducer never reports a failure.
C13_ReducerContract ==
    call = "reduce" =>
        LET text == call_in
            out == call_out.value
        IN /\ ~call_out.raised
           /\ Len(text) <= 50000 => out = text
           /\ Len(text) > 50000 =>
                /\ Len(out) = 50000 + Len(TruncationMarker)
                /\ \A k \in 1..50000 : out[k] = text[k]
                /\ \A k \in 1..Len(TruncationMarker) :
                        out[50000 + k] = TruncationMarker[k]

C13_Witness ==
    /\ call = "reduce"
    /\ Len(call_in) > 50000
    /\ Len(call_out.value) = 50000 + Len(TruncationMarker)

\* a schema file that exists, parses, holds an object, and names only types
\* of the closed set
SchemaIsValid(file) ==
    /\ file.exists
    /\ file.parses
    /\ file.top = "object"
    /\ \A k \in DOMAIN file.fields :
        /\ file.fields[k].value.kind = "str"
        /\ file.fields[k].value.text \in
                {"string", "number", "boolean", "array", "object"}

\* C15: load_schema succeeds exactly when the file holds a JSON object whose
\* every value is one of string, number, boolean, array, object, and then
\* returns that mapping unchanged; otherwise it raises and returns no schema.
C15_LoadSchemaContract ==
    call = "load_schema" =>
        /\ SchemaIsValid(call_in) <=> ~call_out.raised
        /\ SchemaIsValid(call_in) => call_out.value = call_in.fields

C15_Witness ==
    /\ call = "load_schema"
    /\ ~call_out.raised
    /\ Len(call_in.fields) = 2
    /\ call_out.value = call_in.fields

\* C16: when the schema does not load, the extract command stops at once: it
\* constructs no scraper, starts no batch and writes no output file.
C16_SchemaErrorStops ==
    call = "extract" /\ ~SchemaIsValid(call_in.schema_file) =>
        /\ ~call_out.raised
        /\ \A k \in DOMAIN call_out.steps :
                call_out.steps[k] \notin
                    {"WebScraper", "extract_batch", "export_results"}

C16_Witness ==
    /\ call = "extract"
    /\ call_in.url # call_in.urls_file
    /\ call_in.api_key
    /\ call_in.schema_file.top = "object"
    /\ ~SchemaIsValid(call_in.schema_file)
    /\ call_out.steps = <<"load_schema">>
    /\ call_out.printed = "Error loading schema"

\* C17: for a non-empty list of outcomes the CSV file has one header row, the
\* sorted union of all keys except source and parse_error, then one row per
\* outcome in input order; a field the outcome lacks is empty, a list or
\* object is written as JSON text.
C17_CsvLayout ==
    call = "export" /\ call_in.suffix \in {".csv", ".Csv"}
                    /\ call_in.results # <<>> =>
        LET rs == call_in.results
            file == call_out.file
            columns == UNION {DOMAIN rs[i] : i \in DOMAIN rs}
                            \ {"source", "parse_error"}
        IN /\ file.has_header
           /\ {file.header[k] : k \in DOMAIN file.header} = columns
           /\ \A j, k \in DOMAIN file.header :
                j < k => Rank(file.header[j]) < Rank(file.header[k])
           /\ Len(file.rows) = Len(rs)
           /\ \A i \in DOMAIN rs :
                /\ Len(file.rows[i]) = Len(file.header)
                /\ \A k \in DOMAIN file.header :
                    LET key == file.header[k]
                        cell == file.rows[i][k]
                    IN IF key \notin DOMAIN rs[i] \/ rs[i][key].kind = "none"
                       THEN cell.kind = "empty"
                       ELSE /\ cell.of = rs[i][key]
                            /\ cell.kind = IF rs[i][key].kind \in {"list", "dict"}
                                           THEN "json" ELSE "plain"

C17_Witness ==
    /\ call = "export"
    /\ call_in.suffix = ".csv"
    /\ Len(call_in.results) = 2
    /\ \E i \in DOMAIN call_in.results : "parse_error" \in DOMAIN call_in.results[i]
    /\ \A k \in DOMAIN call_out.file.header :
            call_out.file.header[k] \notin {"source", "parse_error"}
    /\ \E i \in DOMAIN call_out.file.rows, k \in DOMAIN call_out.file.header :
            call_out.file.rows[i][k].kind = "json"
    /\ \E i \in DOMAIN call_out.file.rows, k \in DOMAIN call_out.file.header :
            call_out.file.rows[i][k].kind = "empty"

\* C18: export_results raises and writes no file when the extension, lower
\* case or not, is neither .json nor .csv; otherwise it writes every outcome
\* of the batch, failures included.
C18_ExportByExtension ==
    call = "export" =>
        LET rs == call_in.results
            file == call_out.file
            json == call_in.suffix \in {".json", ".JSON"}
            csv == call_in.suffix \in {".csv", ".Csv"}
        IN /\ ~json /\ ~csv => call_out.ret.raised /\ file = NoFile
           /\ json => /\ ~call_out.ret.raised
                      /\ file.format = "json"
                      /\ file.rows = rs
           /\ csv => /\ ~call_out.ret.raised
                     /\ file.format = "csv"
                     /\ Len(file.rows) = Len(rs)
                     /\ \A i \in DOMAIN rs :
                            \E k \in DOMAIN file.header :
                                /\ file.header[k] = "url"
                                /\ file.rows[i][k].of = rs[i].url

C18_Witness ==
    /\ call = "export"
    /\ call_in.suffix = ".JSON"
    /\ \E i \in DOMAIN call_in.results : "parse_error" \in DOMAIN call_in.results[i]
    /\ \E i \in DOMAIN call_in.results : "parse_error" \notin DOMAIN call_in.results[i]
    /\ call_out.file.format = "json"
    /\ call_out.file.rows = call_in.results

\* C19: sitemap discovery never returns more URLs than the limit the caller
\* gave, whatever the limit (0 included), and documents that are sitemap
\* indexes give no URLs.
C19_LimitRespected ==
    call = "sitemap" =>
        /\ call_in.limit.given => Len(call_out.urls) <= call_in.limit.n
        /\ (\A k \in DOMAIN call_in.responses :
                (call_in.responses[k].kind = "response"
                    /\ call_in.responses[k].status = 200)
                    => call_in.responses[k].doc.root = "sitemapindex")
              => call_out.urls = <<>>

\* C20: the example object of the prompt has the schema's field names as
\* keys, in schema order, each with a placeholder made of the field's type
\* tag alone; the prompt is a function of the schema and the text only.
C20_PromptExample ==
    call = "build_prompt" =>
        LET schema == call_in.schema
            example == call_out.example
        IN /\ Len(example) = Len(schema)
           /\ \A k \in DOMAIN schema :
                /\ example[k].key = schema[k].name
                /\ example[k].value = <<"<", schema[k].value.text, ">">>
           /\ \A j, k \in DOMAIN schema :
                schema[j].value = schema[k].value
                    => example[j].value = example[k].value
           /\ call_out.content = call_in.markdown

C20_Witness ==
    /\ call = "build_prompt"
    /\ Len(call_in.schema) = 2
    /\ call_in.schema[1].name = "title"
    /\ call_in.schema[2].name = "price"
    /\ call_out.example[1].key = "title"
    /\ call_out.example[2].key = "price"
    /\ call_in.schema[1].value # call_in.schema[2].value


\* C21: with exactly one of --url and --urls, a schema that loads, the API
\* key set and an output extension export accepts, the extract command
\* constructs the scraper with max_concurrent = --parallel, runs the batch
\* over every non-blank input URL, reports the counts of successes and
\* failures with at most 5 failures previewed, exports every outcome and
\* closes the scraper.
C21_CommandRunsBatch ==
    call = "extract" /\ call_in.url # call_in.urls_file
                     /\ SchemaIsValid(call_in.schema_file)
                     /\ call_in.api_key
                     /\ call_in.output = ".json" =>
        LET run == call_out.run
            given == IF call_in.url
                     THEN 1
                     ELSE Cardinality({k \in DOMAIN call_in.lines :
                                        call_in.lines[k] \notin {"\n", "   \n"}})
        IN /\ ~call_out.raised
           /\ call_out.steps = <<"load_schema", "WebScraper", "extract_batch",
                                 "export_results", "close">>
           /\ run.max_concurrent = call_in.parallel
           /\ Len(run.urls) = given
           /\ run.successful + run.failed = given
           /\ Len(run.shown) <= 5
           /\ Len(run.shown) = IF run.failed < 5 THEN run.failed ELSE 5
           /\ run.file.format = "json"
           /\ Len(run.file.rows) = given
           /\ run.closed


\* the lowest index of a non-empty set of candidates
FirstOf(ks) == CHOOSE k \in ks : \A j \in ks : k <= j

Answers200(k) ==
    /\ call_in.responses[k].kind = "response"
    /\ call_in.responses[k].status = 200

\* C22 as stated: the result of sitemap discovery is the URL list parsed
\* from the first candidate, in the fixed order, that answers HTTP 200,
\* whatever the candidates after it hold.
C22_FirstOkCandidate ==
    call = "sitemap" =>
        LET ok == {k \in DOMAIN call_in.responses : Answers200(k)}
        IN ok # {} =>
            call_out.urls = ParseSitemapXml(call_in.responses[FirstOf(ok)].doc,
                                            call_in.limit)

\* C22 (amended): the candidates are probed in order and the result is the
\* URL list parsed from the first candidate that answers HTTP 200 with a
\* document that yields at least one URL; the candidates after it are not
\* requested, and the result is empty when no candidate does.
C22_FirstCandidateWithUrls ==
    call = "sitemap" =>
        LET ok == {k \in DOMAIN call_in.responses :
                    /\ Answers200(k)
                    /\ ParseSitemapXml(call_in.responses[k].doc,
                                       call_in.limit) # <<>>}
        IN IF ok = {}
           THEN /\ call_out.urls = <<>>
                /\ call_out.probed =
                    <<"/sitemap.xml", "/sitemap_index.xml", "/sitemap-index.xml">>
           ELSE /\ call_out.urls =
                    ParseSitemapXml(call_in.responses[FirstOf(ok)].doc,
                                    call_in.limit)
                /\ call_out.probed =
                    SubSeq(<<"/sitemap.xml", "/sitemap_index.xml",
                             "/sitemap-index.xml">>, 1, FirstOf(ok))

C22_Witness ==
    /\ call = "sitemap"
    /\ Answers200(1)
    /\ call_in.responses[1].doc.root = "sitemapindex"
    /\ Answers200(2)
    /\ call_in.responses[2].doc.root = "urlset"
    /\ Answers200(3)
    /\ call_out.urls # <<>>
    /\ call_out.urls = ParseSitemapXml(call_in.responses[2].doc, call_in.limit)
    /\ call_out.urls # ParseSitemapXml(call_in.responses[3].doc, call_in.limit)
    /\ call_out.probed = <<"/sitemap.xml", "/sitemap_index.xml">>


\* C23: under fair scheduling, with every fetch and model call answering or
\* failing, a running extract_batch eventually returns, for every URL list
\* and every max_concurrent the constructor accepts, and no pipeline waits
\* for a gate slot forever.
C23_BatchReturns ==
    /\ (batch_pc = "running") ~> (batch_pc = "returned")
    /\ \A i \in 1..MaxUrls :
        (batch_pc = "running" /\ i \in Tasks /\ pc[i] = "pending")
            ~> (i \in Tasks /\ pc[i] # "pending")

====
